---- MODULE Spec2Model ----
(***************************************************************************)
(* Model of libavfilter/vf_genericshader.c: the "genericshader" video      *)
(* filter, which renders every frame through an OpenGL program built from  *)
(* a fragment-shader template and a pluggable transition function.         *)
(*                                                                         *)
(* The state is the private context of every filter instance               *)
(* (GenericShaderContext), the part of the GLFW/OpenGL world the filter     *)
(* acts on (the current context of the thread, the objects created in each *)
(* context and the release calls that named them) and the calls issued by  *)
(* the handler that ran last.  Every handler of the filter (init,          *)
(* config_props, filter_frame, uninit) is one action.                      *)
(***************************************************************************)
EXTENDS Integers, Sequences, FiniteSets, TLC

VARIABLES
  insts,   \* the filter instances of the graph
  link,    \* per instance: the input link (w, h, time_base.den)
  phase,   \* per instance: where the host is in the filter's life
  gs,      \* per instance: GenericShaderContext
  cur,     \* GLFW: the window whose context is current on the thread (0: none)
  objs,    \* every window/GL object ever created |-> number of release calls naming it
  shown,   \* per instance: pts and progress uniform of the frame rendered last
  calls,   \* the GLFW/GL calls of the handler that ran last, in order
  last,    \* the handler that ran last, its instance and its return value
  gl,      \* per context: the program in use, the bound texture and its
           \* image, the value of the progress uniform
  mem,     \* per instance: allocations and frees of the host memory it owns
  host,    \* what the handler that ran last did on the host side, in order
  crashed  \* the process was killed by a fault

vars == <<insts, link, phase, gs, cur, objs, shown, calls, last, gl, mem, host,
          crashed>>

----------------------------------------------------------------------------
(* Bounds of the model.                                                    *)

MaxPts == 3          \* pts of a frame ranges over -MaxPts-1 .. MaxPts
MaxOffsetHalves == 2 \* offset ranges over 0, 1/2, .. MaxOffsetHalves/2
MaxDurExp == 2       \* duration ranges over 0 and 2^k/2, k in 0..MaxDurExp
MaxDenExp == 1       \* time_base.den ranges over 2^k, k in 0..MaxDenExp
MaxDim == 1          \* width and height of the link range over 1..MaxDim
MaxBody == 2         \* the transition file holds at most MaxBody characters

----------------------------------------------------------------------------
(* Floating point.  A value is a finite rational n/d in lowest terms, an   *)
(* infinity or a NaN.  Every finite value the model feeds to the           *)
(* arithmetic is a dyadic rational of small magnitude, on which IEEE-754   *)
(* single and double arithmetic is exact; division by zero and NaN         *)
(* comparisons follow IEEE-754, which is what the builds of the filter     *)
(* produce.                                                                *)

RECURSIVE GCD(_, _)
GCD(a, b) == IF b = 0 THEN a ELSE GCD(b, a % b)

Abs(x) == IF x < 0 THEN -x ELSE x

Rat(n, d) ==
  LET s == IF d < 0 THEN -1 ELSE 1
      g == GCD(Abs(n), Abs(d))
  IN [k |-> "fin", n |-> (s * n) \div g, d |-> (s * d) \div g]

PInf == [k |-> "inf", n |-> 1, d |-> 0]
NInf == [k |-> "inf", n |-> -1, d |-> 0]
NaN  == [k |-> "nan", n |-> 0, d |-> 0]

Zero == Rat(0, 1)
One  == Rat(1, 1)

\* (float)x of an integer x
IntToFloat(x) == Rat(x, 1)

\* a - b
FSub(a, b) ==
  IF a.k = "nan" \/ b.k = "nan" THEN NaN
  ELSE IF a.k = "inf" /\ b.k = "inf" THEN (IF a.n = b.n THEN NaN ELSE a)
  ELSE IF a.k = "inf" THEN a
  ELSE IF b.k = "inf" THEN (IF b.n > 0 THEN NInf ELSE PInf)
  ELSE Rat(a.n * b.d - b.n * a.d, a.d * b.d)

\* a / b; a zero divisor is +0.0
FDiv(a, b) ==
  IF a.k = "nan" \/ b.k = "nan" THEN NaN
  ELSE IF a.k = "inf" /\ b.k = "inf" THEN NaN
  ELSE IF a.k = "inf" THEN (IF b.n < 0 THEN (IF a.n > 0 THEN NInf ELSE PInf) ELSE a)
  ELSE IF b.k = "inf" THEN Zero
  ELSE IF b.n = 0 THEN (IF a.n = 0 THEN NaN ELSE IF a.n > 0 THEN PInf ELSE NInf)
  ELSE Rat(a.n * b.d, a.d * b.n)

\* a > b; false when either is a NaN
FGt(a, b) ==
  IF a.k = "nan" \/ b.k = "nan" THEN FALSE
  ELSE IF a.k = "inf" THEN a.n > 0 /\ ~(b.k = "inf" /\ b.n > 0)
  ELSE IF b.k = "inf" THEN b.n < 0
  ELSE a.n * b.d > b.n * a.d

\* libavutil macros: FFMAX(a,b) ((a) > (b) ? (a) : (b)), FFMIN(a,b) ((a) > (b) ? (b) : (a))
FFMAX(a, b) == IF FGt(a, b) THEN a ELSE b
FFMIN(a, b) == IF FGt(a, b) THEN b ELSE a

RECURSIVE Pow2(_)
Pow2(k) == IF k = 0 THEN 1 ELSE 2 * Pow2(k - 1)

----------------------------------------------------------------------------
(* Inputs.                                                                 *)

Instances == {1, 2}

PtsSet == (-MaxPts - 1) .. MaxPts
Offsets == {Rat(h, 2) : h \in 0 .. MaxOffsetHalves}
Durations == {Zero} \cup {Rat(Pow2(k), 2) : k \in 0 .. MaxDurExp}
Dens == {Pow2(k) : k \in 0 .. MaxDenExp}

\* the texts a transition file can hold
Alphabet == {"%", "s"}
RECURSIVE Texts(_)
Texts(n) ==
  IF n = 0 THEN {""}
  ELSE Texts(n - 1) \cup {t \o c : t \in {u \in Texts(n - 1) : Len(u) = n - 1}, c \in Alphabet}
Bodies == Texts(MaxBody)

\* the option table: defaults and admitted ranges
DefaultDuration == One
DefaultOffset == Zero
OptionsOK(duration, offset) == ~FGt(Zero, duration) /\ ~FGt(Zero, offset)

----------------------------------------------------------------------------
(* The GLFW/OpenGL world.                                                  *)
(*                                                                         *)
(* An object is [ctx, kind, name, by]: the context it lives in (0 for a    *)
(* window), its kind, its name in that context and the instance whose      *)
(* handler created it.  GL calls act on the context that is current.       *)
(* objs[o] counts the explicit release calls that named o (glDelete*,      *)
(* glfwDestroyWindow), up to 2.                                            *)
(*                                                                         *)
(* The handlers are written as functions of a scratch record               *)
(* S = [g, cur, objs, log, ret, gl, mem, host]: the instance's context,    *)
(* the current window, the objects, the calls issued so far, the value     *)
(* returned by the step that ran last, the state of the GL contexts, the   *)
(* instance's host memory and the                                          *)
(* host side of the handler (its events, each with the number of GLFW/GL   *)
(* calls issued before it).                                                *)

GL_VERTEX_SHADER == 35633
GL_FRAGMENT_SHADER == 35632
GL_TRIANGLES == 4
ENOMEM == 12
AVERROR(e) == -e

\* the calls that are OpenGL calls (the others are GLFW/GLEW calls)
IsGL(op) == op \notin {"glfwInit", "glfwWindowHint", "glfwCreateWindow", "glfwMakeContextCurrent",
                       "glfwDestroyWindow", "glewInit"}

\* the state of a context glfwCreateWindow returns
NewGL ==
  [program |-> 0, texture |-> 0, w |-> 0, h |-> 0, data |-> 0, progress |-> Zero]

\* the calls of the filter that change the state of a context kept here
StateOps == {"glUseProgram", "glBindTexture", "glTexImage2D", "glUniform1f"}

\* what a call changes in the state of a context: glUseProgram the program
\* in use, glBindTexture the texture bound to the unit, glTexImage2D the image
\* of the bound texture (width, height, 0 for no pixels or 1 for the pixels
\* of a frame), glUniform1f the progress uniform
Effect(c, op, arg, val) ==
  CASE op = "glUseProgram" -> [c EXCEPT !.program = arg[1]]
    [] op = "glBindTexture" -> [c EXCEPT !.texture = arg[1]]
    [] op = "glTexImage2D" -> [c EXCEPT !.w = arg[1], !.h = arg[2], !.data = arg[3]]
    [] op = "glUniform1f" -> [c EXCEPT !.progress = val]
    [] OTHER -> c

\* a call acts on the context that is current, if one is
Call(S, op, arg, val) ==
  [S EXCEPT !.log = Append(@, [op |-> op, arg |-> arg, val |-> val, cur |-> S.cur]),
            !.gl = IF op \in StateOps /\ S.cur \in DOMAIN @
                   THEN [@ EXCEPT ![S.cur] = Effect(@, op, arg, val)]
                   ELSE @]

\* a fresh name of the name space `kinds` in the current context
NewName(S, kinds) ==
  1 + Cardinality({o \in DOMAIN S.objs : o.ctx = S.cur /\ o.kind \in kinds})

\* glCreateShader / glCreateProgram / glGen*: a new object of the current context
Create(S, kind, kinds, by) ==
  LET name == NewName(S, kinds)
      o == [ctx |-> S.cur, kind |-> kind, name |-> name, by |-> by]
  IN [S EXCEPT !.objs = (o :> 0) @@ @, !.ret = name]

Bump(n) == IF n < 2 THEN n + 1 ELSE n

\* glDelete*: names the object `name` of the current context, if there is one
Delete(S, kind, name) ==
  [S EXCEPT !.objs = [o \in DOMAIN @ |->
     IF S.cur # 0 /\ o.ctx = S.cur /\ o.kind = kind /\ o.name = name
     THEN Bump(@[o]) ELSE @[o]]]

\* a host-side event of the handler (libc, libavutil, libavfilter)
Ev(S, ev) ==
  [S EXCEPT !.host.events = Append(@, [ev |-> ev, at |-> Len(S.log)])]

\* a fault (a write through NULL or outside the allocation) kills the process
Crash(S) == [S EXCEPT !.host.crash = TRUE, !.ret = -1]

\* the call `op` on the value the last step returned / on a field of the context
CallRet(S, op) == Call(S, op, <<S.ret>>, Zero)
CallRetWith(S, op, x) == Call(S, op, <<S.ret, x>>, Zero)
CallField(S, op, field) == Call(S, op, <<S.g[field]>>, Zero)

\* the value the last step returned is stored in a field of the context
Store(S, field) == [S EXCEPT !.g[field] = S.ret]

Return(S, v) == [S EXCEPT !.ret = v]

\* glfwCreateWindow: a new window, or NULL
NewWindow(S, by) ==
  [ctx |-> 0, kind |-> "window", by |-> by,
   name |-> 1 + Cardinality({o \in DOMAIN S.objs : o.kind = "window"})]

glfwCreateWindow(S, ok, by) ==
  IF ok
  THEN [S EXCEPT !.log = Append(@, [op |-> "glfwCreateWindow", arg |-> <<>>,
                                    val |-> Zero, cur |-> S.cur]),
                 !.objs = (NewWindow(S, by) :> 0) @@ @,
                 !.gl = (NewWindow(S, by).name :> NewGL) @@ @,
                 !.ret = NewWindow(S, by).name]
  ELSE Return(Call(S, "glfwCreateWindow", <<>>, Zero), 0)

glfwMakeContextCurrent(S, w) ==
  [S EXCEPT !.log = Append(@, [op |-> "glfwMakeContextCurrent", arg |-> <<w>>,
                               val |-> Zero, cur |-> S.cur]),
            !.cur = w]

\* glfwDestroyWindow: the window's context is detached if it is current
glfwDestroyWindow(S, w) ==
  [S EXCEPT !.log = Append(@, [op |-> "glfwDestroyWindow", arg |-> <<w>>,
                               val |-> Zero, cur |-> S.cur]),
            !.objs = [o \in DOMAIN @ |->
                        IF o.kind = "window" /\ o.name = w THEN Bump(@[o]) ELSE @[o]],
            !.cur = IF @ = w THEN 0 ELSE @]

\* glGetUniformLocation / glGetAttribLocation of the linked program
Location(name) ==
  CASE name = "to" -> 0
    [] name = "progress" -> 1
    [] name = "resolution" -> 2
    [] OTHER -> 0

----------------------------------------------------------------------------
(* The filter.  A step that uses the result of the step before it more     *)
(* than once is an operator of its own, taking that result as a parameter. *)

Outcomes == {"ok", "nocreate", "nocompile"}

\* how reading the transition file goes once it is open: the whole file is
\* read, fread stores less than the file ("short"), ftell fails ("nosize"),
\* or malloc returns NULL ("nomem")
Reads == {"ok", "short", "nosize", "nomem"}

\* every question of one config_props answered favourably
DefaultEnv ==
  [win |-> TRUE, vs |-> "ok", fopen |-> TRUE, read |-> "ok", content |-> "",
   junk |-> "", segv |-> FALSE, calloc |-> TRUE, fs |-> "ok", link |-> TRUE]

\* the answers about the file after which build_program does not go on:
\* fopen fails; malloc returned NULL and source[fsize] = 0 writes through it;
\* ftell returned -1, fsize is ULONG_MAX, and the write of source[fsize] or
\* the strlen of the unterminated buffer faults
FileStops ==
  {[DefaultEnv EXCEPT !.fopen = FALSE],
   [DefaultEnv EXCEPT !.read = "nomem"],
   [DefaultEnv EXCEPT !.read = "nosize", !.segv = TRUE]}

\* the answers about the file after which build_program goes on: `content`
\* is what the file holds, `junk` what the buffer holds as a C string when
\* fread did not fill it (no longer than the file when the size was known)
FileGoes ==
  {[DefaultEnv EXCEPT !.content = c] : c \in Bodies}
    \cup {[DefaultEnv EXCEPT !.read = "short", !.content = p[1], !.junk = p[2]] :
             p \in {q \in Bodies \X Bodies : Len(q[2]) <= Len(q[1])}}
    \cup {[DefaultEnv EXCEPT !.read = "nosize", !.junk = j] : j \in Bodies}

\* the answers from av_calloc on: it fails, or the fragment shader is not
\* built, or the program is linked or not
Compiles(e) ==
  {[e EXCEPT !.calloc = FALSE]}
    \cup {[e EXCEPT !.fs = f] : f \in Outcomes \ {"ok"}}
    \cup {[e EXCEPT !.link = l] : l \in BOOLEAN}

\* what the environment answers during one config_props of an instance with
\* or without a source path; a question that is never asked has its
\* favourable answer
Envs(source) ==
  {[DefaultEnv EXCEPT !.win = FALSE]}
    \cup {[DefaultEnv EXCEPT !.vs = v] : v \in Outcomes \ {"ok"}}
    \cup (IF source THEN FileStops ELSE {})
    \cup UNION {Compiles(e) : e \in (IF source THEN FileGoes ELSE {DefaultEnv})}

\* the fragment shader around the transition (lines 30-40)
f_shader_template ==
  "uniform sampler2D to;\nvarying vec2 _uv;\nuniform float progress;\nuniform vec2 resolution;\n\n%s\n\nvoid main() {\n  gl_FragColor = transition(_uv);\n}\n"

\* the transition used without a source path (lines 43-46)
f_default_transition_source ==
  "vec4 transition (vec2 uv) {\n  return texture2D(to, uv);\n}\n"

\* the private context as the host allocates it (zeroed), with the options set
NewContext(duration, offset, source) ==
  [duration |-> duration, offset |-> offset, source |-> source,
   first_pts |-> "zero", progress |-> 0, frame_tex |-> 0, program |-> 0,
   pos_buf |-> 0, window |-> 0, f_shader_source |-> "NULL"]

\* init: 0, or -1 when glfwInit fails
init(S, ok) ==
  [S EXCEPT !.log = Append(@, [op |-> "glfwInit", arg |-> <<>>, val |-> Zero,
                               cur |-> S.cur]),
            !.g.first_pts = "AV_NOPTS_VALUE",
            !.ret = IF ok THEN 0 ELSE -1]

\* build_shader once glCreateShader returned the shader S.ret (lines 86-96)
compile_shader(S, outcome, type) ==
  LET S1 == Call(S, "glCreateShader", <<type, S.ret>>, Zero)
      S2 == CallRet(S1, "glIsShader")
      S3 == CallRet(S2, "glShaderSource")
      S4 == CallRet(S3, "glCompileShader")
      S5 == CallRetWith(S4, "glGetShaderiv", IF outcome = "ok" THEN 1 ELSE 0)
  IN [S5 EXCEPT !.ret = IF outcome = "ok" THEN @ ELSE 0]

\* build_shader: the shader object, or 0; `outcome` is the driver's answer
build_shader(S, by, outcome, type) ==
  IF outcome = "nocreate"
  THEN Return(Call(S, "glCreateShader", <<type, 0>>, Zero), 0)
  ELSE compile_shader(Create(S, "shader", {"shader", "program"}, by), outcome, type)

\* build_program once glCreateProgram returned the program S.ret (lines 151-158)
link_program(S, env, v_shader, f_shader) ==
  LET P1 == Store(Call(S, "glCreateProgram", <<>>, Zero), "program")
      P2 == CallRetWith(P1, "glAttachShader", v_shader)
      P3 == CallRetWith(P2, "glAttachShader", f_shader)
      P4 == CallRet(P3, "glLinkProgram")
      P5 == CallRetWith(P4, "glGetProgramiv", IF env.link THEN 1 ELSE 0)
  IN Return(P5, IF env.link THEN 0 ELSE -1)

\* build_program once the fragment shader F.ret was built (lines 146-158)
build_program_fragment(F, by, env, v_shader) ==
  IF F.ret = 0 THEN Return(F, -1)
  ELSE link_program(Create(F, "program", {"shader", "program"}, by), env, v_shader, F.ret)

\* strlen of a text without NUL characters
strlen(t) == Len(t)

\* the positions of a format at which a %s conversion starts
Conversions(fmt) == {k \in 1 .. Len(fmt) - 1 : SubSeq(fmt, k, k + 1) = "%s"}

\* the first conversion of the template
FirstConversion ==
  CHOOSE k \in Conversions(f_shader_template) :
    \A j \in Conversions(f_shader_template) : k <= j

\* the template before and after its first conversion
TemplateHead == SubSeq(f_shader_template, 1, FirstConversion - 1)
TemplateTail == SubSeq(f_shader_template, FirstConversion + 2, Len(f_shader_template))

\* the expansion of the template with one string argument: the first %s
\* takes it, and the argument is copied as it is
Format(arg) == TemplateHead \o arg \o TemplateTail

\* snprintf(buf, size, f_shader_template, arg): what buf holds as a C string
\* afterwards, at most size - 1 characters of the expansion; buf comes zeroed
\* from av_calloc
snprintf(size, arg) ==
  IF size = 0 THEN ""
  ELSE IF Len(Format(arg)) < size THEN Format(arg)
  ELSE SubSeq(Format(arg), 1, size - 1)

\* a buffer as long as the template alone
ComposedLen_template(transition_source) == strlen(f_shader_template)

\* int len = strlen(f_shader_template) + strlen(transition_source)
ComposedLen(transition_source) ==
  strlen(f_shader_template) + strlen(transition_source)

\* free(source) when the file was read into a buffer (lines 141-144)
FreeSource(S, allocated) ==
  IF allocated THEN [Ev(S, "free") EXCEPT !.mem.source_free = Bump(@)] ELSE S

\* build_program composes the fragment source (lines 131-144)
Compose(S, transition_source, allocated) ==
  FreeSource(
    [Ev(Ev(S, "av_calloc"), "snprintf")
       EXCEPT !.g.f_shader_source =
                snprintf(ComposedLen(transition_source), transition_source),
              !.mem.f_shader_source_alloc = Bump(@),
              !.host.body = transition_source],
    allocated)

\* build_program from transition_source on (lines 131-158)
build_program_compose(S, by, env, transition_source, allocated) ==
  IF ~env.calloc THEN Return(Ev(S, "av_calloc"), AVERROR(ENOMEM))
  ELSE build_program_fragment(
         build_shader(Compose(S, transition_source, allocated), by, env.fs,
                      GL_FRAGMENT_SHADER),
         by, env, S.ret)

\* the buffer as a C string after fread and source[fsize] = 0
ReadBody(env) == IF env.read = "ok" THEN env.content ELSE env.junk

\* malloc(fsize + 1), fread, fclose, source[fsize] = 0 (lines 123-127); no
\* result is checked
ReadSource(S, env) ==
  [Ev(Ev(Ev(Ev(S, "fopen"), "malloc"), "fread"), "fclose")
     EXCEPT !.mem.source_alloc = Bump(@),
            !.host.readok = (env.read = "ok")]

\* build_program with a source path (lines 111-158)
build_program_file(V, by, env) ==
  IF ~env.fopen THEN Return(Ev(V, "fopen"), -1)
  ELSE IF env.read = "nomem" \/ env.segv
  THEN Crash([Ev(Ev(V, "fopen"), "malloc") EXCEPT !.host.readok = FALSE])
  ELSE build_program_compose(ReadSource(V, env), by, env, ReadBody(env), TRUE)

\* build_program once the vertex shader V.ret was built (lines 103-158)
build_program_vertex(V, by, env) ==
  IF V.ret = 0 THEN Return(V, -1)
  ELSE IF V.g.source THEN build_program_file(V, by, env)
  ELSE build_program_compose(V, by, env, f_default_transition_source, FALSE)

\* build_program: 0, -1 or AVERROR(ENOMEM)
build_program(S, by, env) ==
  build_program_vertex(build_shader(S, by, env.vs, GL_VERTEX_SHADER), by, env)

vbo_setup(S, by) ==
  LET S1 == Store(Create(S, "buffer", {"buffer"}, by), "pos_buf")
      S2 == CallRet(S1, "glGenBuffers")
      S3 == CallField(S2, "glBindBuffer", "pos_buf")
      S4 == Call(S3, "glBufferData", <<12>>, Zero)
      S5 == CallField(S4, "glGetAttribLocation", "program")
      S6 == Call(S5, "glEnableVertexAttribArray", <<0>>, Zero)
  IN Call(S6, "glVertexAttribPointer", <<0, 2>>, Zero)

\* a tex_setup that leaves the size of the texture to the first frame
tex_setup_unsized(S, by, w, h) ==
  LET S1 == Store(Create(S, "texture", {"texture"}, by), "frame_tex")
      S2 == CallRet(S1, "glGenTextures")
      S3 == Call(S2, "glActiveTexture", <<0>>, Zero)
      S4 == CallField(S3, "glBindTexture", "frame_tex")
      S5 == Call(S4, "glTexImage2D", <<0, 0, 0>>, Zero)
      S6 == CallField(S5, "glGetUniformLocation", "program")
  IN Call(S6, "glUniform1i", <<Location("to"), 0>>, Zero)

tex_setup(S, by, w, h) ==
  LET S1 == Store(Create(S, "texture", {"texture"}, by), "frame_tex")
      S2 == CallRet(S1, "glGenTextures")
      S3 == Call(S2, "glActiveTexture", <<0>>, Zero)
      S4 == CallField(S3, "glBindTexture", "frame_tex")
      S5 == Call(S4, "glTexParameteri", <<>>, Zero)
      S6 == Call(S5, "glTexParameteri", <<>>, Zero)
      S7 == Call(S6, "glTexParameteri", <<>>, Zero)
      S8 == Call(S7, "glTexParameteri", <<>>, Zero)
      S9 == Call(S8, "glTexImage2D", <<w, h, 0>>, Zero)
      S10 == CallField(S9, "glGetUniformLocation", "program")
  IN Call(S10, "glUniform1i", <<Location("to"), 0>>, Zero)

uniforms_setup(S, w, h) ==
  LET S1 == CallField(S, "glGetUniformLocation", "program")
      S2 == Store(Return(S1, Location("progress")), "progress")
      S3 == CallField(S2, "glUniform1f", "progress")
      S4 == CallField(S3, "glGetUniformLocation", "program")
  IN Call(S4, "glUniform2f", <<Location("resolution"), w, h>>, Zero)

\* a config_props that goes on to the setup whatever build_program returned
config_props_setup_unchecked(B, by, w, h) ==
  LET S1 == CallField(B, "glUseProgram", "program")
      S2 == vbo_setup(S1, by)
      S3 == tex_setup(S2, by, w, h)
      S4 == uniforms_setup(S3, w, h)
  IN Return(S4, 0)

\* config_props once build_program returned B.ret (lines 223-232)
config_props_setup(B, by, w, h) ==
  IF B.ret < 0 THEN B
  ELSE LET S1 == CallField(B, "glUseProgram", "program")
           S2 == vbo_setup(S1, by)
           S3 == tex_setup(S2, by, w, h)
           S4 == uniforms_setup(S3, w, h)
       IN Return(S4, 0)

\* config_props once glfwCreateWindow returned (lines 209-232)
config_props_window(S, by, env, w, h) ==
  IF S.g.window = 0 THEN Return(S, -1)
  ELSE LET S1 == glfwMakeContextCurrent(S, S.g.window)
           S2 == Call(S1, "glewInit", <<>>, Zero)
           S3 == Call(S2, "glViewport", <<w, h>>, Zero)
       IN config_props_setup(build_program(S3, by, env), by, w, h)

\* config_props: 0 or a negative error
config_props(S, by, env, w, h) ==
  LET S1 == Call(S, "glfwWindowHint", <<>>, Zero)
      S2 == Store(glfwCreateWindow(S1, env.win, by), "window")
  IN config_props_window(S2, by, env, w, h)

\* the clamp with the operands of FFMIN the other way round
Progress_swapped(pts, den, offset, duration) ==
  FFMAX(Zero, FFMIN(FDiv(FSub(FDiv(IntToFloat(pts), IntToFloat(den)), offset),
                         duration),
                    One))

\* the elapsed time taken as offset - time
Progress_reversed(pts, den, offset, duration) ==
  FFMAX(Zero, FFMIN(One, FDiv(FSub(offset, FDiv(IntToFloat(pts), IntToFloat(den))),
                              duration)))

\* the elapsed time taken without the offset
Progress_nooffset(pts, den, offset, duration) ==
  FFMAX(Zero, FFMIN(One, FDiv(FDiv(IntToFloat(pts), IntToFloat(den)), duration)))

\* the progress of a frame (filter_frame, lines 253-254)
Progress(pts, den, offset, duration) ==
  LET ts == FSub(FDiv(IntToFloat(pts), IntToFloat(den)), offset)
  IN FFMAX(Zero, FFMIN(One, FDiv(ts, duration)))

\* glUniform1f(c->progress, progress)
SetProgress(S, pts, den) ==
  Call(S, "glUniform1f", <<S.g.progress>>, Progress(pts, den, S.g.offset, S.g.duration))

\* no frame: a NULL AVFrame pointer
NoAVFrame == [pts |-> -1, props |-> -1, data |-> "none"]

\* what ff_filter_frame can return: 0, or the error of the filters downstream
DownstreamRets == {0, -1}

\* the frame the host passes to filter_frame, owned by filter_frame
InputFrame(pts, props) == [pts |-> pts, props |-> props, data |-> "decoded"]

\* ff_get_video_buffer: a frame with a buffer and no properties yet, or NULL
ff_get_video_buffer(S, alloc) ==
  [Ev(S, "ff_get_video_buffer")
     EXCEPT !.host.out = IF alloc THEN [pts |-> -1, props |-> -1, data |-> "blank"]
                         ELSE @]

\* an av_frame_copy_props that copies nothing
av_frame_copy_props_none(S) == Ev(S, "av_frame_copy_props")

\* av_frame_copy_props(out, in): pts and the other properties, not the data
av_frame_copy_props(S) ==
  [Ev(S, "av_frame_copy_props") EXCEPT !.host.out.pts = S.host.in.pts,
                                       !.host.out.props = S.host.in.props]

\* glReadPixels into out->data[0]
glReadPixels(S, w, h) ==
  [Call(S, "glReadPixels", <<w, h>>, Zero) EXCEPT !.host.out.data = "rendered"]

\* an av_frame_free that frees nothing
av_frame_free_not(S) == Ev(S, "av_frame_free")

\* av_frame_free(&in): the frame is freed and in is set to NULL
av_frame_free(S) ==
  [Ev(S, "av_frame_free")
     EXCEPT !.host.in = NoAVFrame,
            !.host.freed = IF S.host.in = NoAVFrame THEN @ ELSE Bump(@)]

\* ff_filter_frame(outlink, out): the frame goes downstream
ff_filter_frame(S, down) ==
  [Ev(S, "ff_filter_frame") EXCEPT !.host.fwd = Append(@, S.host.out), !.ret = down]

\* a render that rebinds the quad buffer and uploads before it sets the uniform
render_rebind(S, down, pts, den, w, h) ==
  LET S1 == glfwMakeContextCurrent(S, S.g.window)
      S2 == CallField(S1, "glUseProgram", "program")
      S3 == CallField(S2, "glBindBuffer", "pos_buf")
      S4 == Call(S3, "glActiveTexture", <<0>>, Zero)
      S5 == CallField(S4, "glBindTexture", "frame_tex")
      S6 == Call(Ev(S5, "in->data"), "glTexImage2D", <<w, h, 1>>, Zero)
      S7 == SetProgress(Ev(S6, "in->pts"), pts, den)
      S8 == Call(S7, "glDrawArrays", <<GL_TRIANGLES, 0, 6>>, Zero)
      S9 == glReadPixels(S8, w, h)
  IN ff_filter_frame(av_frame_free(S9), down)

\* filter_frame with the output frame allocated: the render, the read back
\* and the hand-over (lines 249-266)
render(S, down, pts, den, w, h) ==
  LET S1 == glfwMakeContextCurrent(S, S.g.window)
      S2 == CallField(S1, "glUseProgram", "program")
      S3 == SetProgress(Ev(S2, "in->pts"), pts, den)
      S4 == Call(S3, "glActiveTexture", <<0>>, Zero)
      S5 == CallField(S4, "glBindTexture", "frame_tex")
      S6 == Call(Ev(S5, "in->data"), "glTexImage2D", <<w, h, 1>>, Zero)
      S7 == Call(S6, "glDrawArrays", <<GL_TRIANGLES, 0, 6>>, Zero)
      S8 == glReadPixels(S7, w, h)
  IN ff_filter_frame(av_frame_free(S8), down)

\* a filter_frame that makes its context current before it looks at the
\* output frame
filter_frame_out_current(S, alloc, down, pts, den, w, h) ==
  IF ~alloc
  THEN Return(av_frame_free(glfwMakeContextCurrent(S, S.g.window)), AVERROR(ENOMEM))
  ELSE render(av_frame_copy_props([S EXCEPT !.host.taken = S.host.in]), down, pts,
              den, w, h)

\* filter_frame once ff_get_video_buffer returned (lines 242-266); `taken`
\* keeps the input frame as it was when its output buffer was allocated
filter_frame_out(S, alloc, down, pts, den, w, h) ==
  IF ~alloc THEN Return(av_frame_free(S), AVERROR(ENOMEM))
  ELSE render(av_frame_copy_props([S EXCEPT !.host.taken = S.host.in]), down, pts,
              den, w, h)

\* filter_frame: AVERROR(ENOMEM) when the output frame cannot be allocated,
\* else what ff_filter_frame returns
filter_frame(S, alloc, down, pts, props, den, w, h) ==
  filter_frame_out(
    ff_get_video_buffer([S EXCEPT !.host.in = InputFrame(pts, props)], alloc),
    alloc, down, pts, den, w, h)

\* glDelete* of the object a field of the context names
DeleteField(S, op, kind, field) ==
  Delete(CallField(S, op, field), kind, S.g[field])

\* uninit with a window (lines 285-288)
uninit_window(S) ==
  LET D1 == DeleteField(S, "glDeleteTextures", "texture", "frame_tex")
      D2 == DeleteField(D1, "glDeleteProgram", "program", "program")
      D3 == DeleteField(D2, "glDeleteBuffers", "buffer", "pos_buf")
  IN glfwDestroyWindow(D3, S.g.window)

\* uninit
\* av_freep(&gs->f_shader_source) when it is not NULL (lines 291-293)
uninit_source(S) ==
  IF S.g.f_shader_source # "NULL"
  THEN [Ev(S, "av_freep") EXCEPT !.g.f_shader_source = "NULL",
                                 !.mem.f_shader_source_free = Bump(@)]
  ELSE S

uninit(S) ==
  Return(uninit_source(IF S.g.window # 0 THEN uninit_window(S) ELSE S), 0)

----------------------------------------------------------------------------
(* The host (libavfilter) and the specification.  The host allocates the   *)
(* zeroed context and sets the options, calls init, then config_props on   *)
(* the input link, then filter_frame for every frame, and uninit when the  *)
(* filter is freed, which may be at any point.  All handlers run on one    *)
(* thread, so a handler runs to its end before the next one starts.        *)

\* n frames rendered so far (counted up to 2), and the last one
NoFrame == [n |-> 0, pts |-> 0, progress |-> Zero]

\* the value of the last glUniform1f of a handler's calls
RECURSIVE UniformWritten(_)
UniformWritten(log) ==
  IF log = <<>> THEN Zero
  ELSE IF log[Len(log)].op = "glUniform1f" THEN log[Len(log)].val
  ELSE UniformWritten(SubSeq(log, 1, Len(log) - 1))

\* the host memory of an instance: malloc and free of the file buffer,
\* av_calloc and av_freep of f_shader_source, each counted up to 2
NoMem ==
  [source_alloc |-> 0, source_free |-> 0,
   f_shader_source_alloc |-> 0, f_shader_source_free |-> 0]

\* the host side of a handler before its first step
NoHost ==
  [events |-> <<>>, body |-> "", readok |-> TRUE, crash |-> FALSE,
   in |-> NoAVFrame, taken |-> NoAVFrame, out |-> NoAVFrame, freed |-> 0,
   fwd |-> <<>>]

Pack(i) ==
  [g |-> gs[i], cur |-> cur, objs |-> objs, log |-> <<>>, ret |-> 0,
   gl |-> gl, mem |-> mem[i], host |-> NoHost]

Commit(i, S, fn) ==
  /\ gs' = [gs EXCEPT ![i] = S.g]
  /\ cur' = S.cur
  /\ objs' = S.objs
  /\ calls' = S.log
  /\ last' = [fn |-> fn, inst |-> i, ret |-> S.ret]
  /\ gl' = S.gl
  /\ mem' = [mem EXCEPT ![i] = S.mem]
  /\ host' = S.host
  /\ crashed' = S.host.crash

\* one instance with any duration, offset and link and no source path, or
\* one instance with a source path, or all instances with the defaults
InitOne ==
  /\ insts = {1}
  /\ \E d \in Durations, o \in Offsets :
       /\ OptionsOK(d, o)
       /\ gs = [i \in insts |-> NewContext(d, o, FALSE)]
  /\ \E w \in 1 .. MaxDim, h \in 1 .. MaxDim, den \in Dens :
       link = [i \in insts |-> [w |-> w, h |-> h, den |-> den]]

InitFile ==
  /\ insts = {1}
  /\ gs = [i \in insts |-> NewContext(DefaultDuration, DefaultOffset, TRUE)]
  /\ link = [i \in insts |-> [w |-> 1, h |-> 1, den |-> 1]]

InitAll ==
  /\ insts = Instances
  /\ gs = [i \in insts |-> NewContext(DefaultDuration, DefaultOffset, FALSE)]
  /\ link = [i \in insts |-> [w |-> 1, h |-> 1, den |-> 1]]

Init ==
  /\ InitOne \/ InitFile \/ InitAll
  /\ phase = [i \in insts |-> "new"]
  /\ cur = 0
  /\ objs = [o \in {} |-> 0]
  /\ shown = [i \in insts |-> NoFrame]
  /\ calls = <<>>
  /\ last = [fn |-> "none", inst |-> 0, ret |-> 0]
  /\ gl = [c \in {} |-> NewGL]
  /\ mem = [i \in insts |-> NoMem]
  /\ host = NoHost
  /\ crashed = FALSE

\* the frames the host passes and what the filters downstream return for
\* them: two kinds of frame alternate in the stream, so the frame at pts p
\* carries the properties p % 2; when the output buffer is not allocated
\* filter_frame reads nothing of the input and passes nothing on, so one
\* frame stands for all
Frames(alloc) ==
  IF alloc THEN {[pts |-> p, props |-> p % 2, down |-> d] : p \in PtsSet, d \in DownstreamRets}
  ELSE {[pts |-> 0, props |-> 0, down |-> 0]}

DoInit(i) ==
  /\ ~crashed
  /\ phase[i] = "new"
  /\ \E ok \in BOOLEAN :
       LET S == init(Pack(i), ok)
       IN /\ Commit(i, S, "init")
          /\ phase' = [phase EXCEPT ![i] = IF S.ret = 0 THEN "inited" ELSE "initfail"]
  /\ UNCHANGED <<insts, link, shown>>

DoConfigProps(i) ==
  /\ ~crashed
  /\ phase[i] = "inited"
  /\ \E env \in Envs(gs[i].source) :
       LET S == config_props(Pack(i), i, env, link[i].w, link[i].h)
       IN /\ Commit(i, S, "config_props")
          /\ phase' = [phase EXCEPT ![i] = IF S.ret = 0 THEN "configured" ELSE "configfail"]
  /\ UNCHANGED <<insts, link, shown>>

DoFilterFrame(i) ==
  /\ ~crashed
  /\ phase[i] = "configured"
  /\ \E alloc \in BOOLEAN : \E f \in Frames(alloc) :
       LET S == filter_frame(Pack(i), alloc, f.down, f.pts, f.props, link[i].den,
                             link[i].w, link[i].h)
       IN /\ Commit(i, S, "filter_frame")
          /\ shown' = [shown EXCEPT ![i] =
               IF alloc
               THEN [n |-> Bump(@.n), pts |-> f.pts, progress |-> UniformWritten(S.log)]
               ELSE @]
  /\ UNCHANGED <<insts, link, phase>>

DoUninit(i) ==
  /\ ~crashed
  /\ phase[i] # "done"
  /\ Commit(i, uninit(Pack(i)), "uninit")
  /\ phase' = [phase EXCEPT ![i] = "done"]
  /\ UNCHANGED <<insts, link, shown>>

Next ==
  \/ \E i \in insts : DoInit(i)
  \/ \E i \in insts : DoConfigProps(i)
  \/ \E i \in insts : DoFilterFrame(i)
  \/ \E i \in insts : DoUninit(i)

Spec == Init /\ [][Next]_vars

TypeOK ==
  /\ insts \subseteq Instances
  /\ \A i \in insts : phase[i] \in {"new", "inited", "initfail", "configured", "configfail", "done"}
  /\ cur \in 0 .. Cardinality(Instances)
  /\ \A o \in DOMAIN objs : objs[o] \in 0 .. 2

----------------------------------------------------------------------------
(* Properties.                                                             *)

\* the object named h of kind `kind` in the context of instance i's window
Named(i, kind, h) ==
  {o \in DOMAIN objs : o.ctx = gs[i].window /\ o.kind = kind /\ o.name = h}

WindowOf(i) == {o \in DOMAIN objs : o.kind = "window" /\ o.name = gs[i].window}

\* a handle is valid: it names an object of the instance's context that no
\* release call has named, and the context still exists
Valid(i, kind, h) ==
  /\ h # 0
  /\ \E o \in Named(i, kind, h) : objs[o] = 0
  /\ \E w \in WindowOf(i) : objs[w] = 0

AllUnset(i) == gs[i].program = 0 /\ gs[i].pos_buf = 0 /\ gs[i].frame_tex = 0

AllValid(i) ==
  /\ Valid(i, "program", gs[i].program)
  /\ Valid(i, "buffer", gs[i].pos_buf)
  /\ Valid(i, "texture", gs[i].frame_tex)

\* C1: in every reachable state the handles program, pos_buf and frame_tex of
\* an instance are either all unset or all valid.
C1_AllUnsetOrAllValid == \A i \in insts : AllUnset(i) \/ AllValid(i)

ReleaseKind(op) ==
  CASE op = "glDeleteTextures" -> "texture"
    [] op = "glDeleteProgram" -> "program"
    [] op = "glDeleteBuffers" -> "buffer"
    [] op = "glfwDestroyWindow" -> "window"
    [] OTHER -> "none"

\* the instance created an object of this kind under this handle
CreatedBy(i, kind, h) ==
  /\ h # 0
  /\ \E o \in DOMAIN objs :
       /\ o.by = i /\ o.kind = kind /\ o.name = h
       /\ o.ctx = IF kind = "window" THEN 0 ELSE gs[i].window

\* C2: every release call uninit issues (glDeleteTextures, glDeleteProgram,
\* glDeleteBuffers, glfwDestroyWindow) names a resource this instance created.
C2_ReleaseOnlyCreated ==
  last.fn = "uninit" =>
    \A k \in 1 .. Len(calls) :
      ReleaseKind(calls[k].op) # "none" =>
        CreatedBy(last.inst, ReleaseKind(calls[k].op), calls[k].arg[1])

\* C3: once uninit has run, every window and GL object the instance created
\* (window, program, buffer, texture, vertex and fragment shader) has been
\* named by exactly one release call.
C3_ReleasedExactlyOnce ==
  \A i \in insts :
    phase[i] = "done" => \A o \in DOMAIN objs : o.by = i => objs[o] = 1

\* C4: every OpenGL call of a handler is issued while the window of the
\* handler's own instance is the current context.
C4_OwnContextCurrent ==
  \A k \in 1 .. Len(calls) :
    IsGL(calls[k].op) =>
      calls[k].cur # 0 /\ calls[k].cur = gs[last.inst].window

\* the names of the calls of a handler, in order
Ops(log) == [k \in 1 .. Len(log) |-> log[k].op]

\* the handler that ran last is a filter_frame whose output frame was allocated
FrameRendered == last.fn = "filter_frame" /\ last.ret = 0

\* C5 as the specification states it: per frame, in this order, make the
\* context current, activate the program, bind the quad buffer as the
\* position attribute source, upload the pixels into frame_tex, set the
\* progress uniform, draw 6 vertices as triangles once, read back.
C5_SpecOrder ==
  FrameRendered =>
    /\ \E p1, p2, p3, p4, p5, p6, p7 \in 1 .. Len(calls) :
         /\ p1 < p2 /\ p2 < p3 /\ p3 < p4 /\ p4 < p5 /\ p5 < p6 /\ p6 < p7
         /\ calls[p1].op = "glfwMakeContextCurrent"
         /\ calls[p2].op = "glUseProgram"
         /\ calls[p3].op = "glBindBuffer"
         /\ calls[p4].op = "glTexImage2D"
         /\ calls[p5].op = "glUniform1f"
         /\ calls[p6].op = "glDrawArrays"
         /\ calls[p7].op = "glReadPixels"
    /\ Cardinality({k \in 1 .. Len(calls) : calls[k].op = "glDrawArrays"}) = 1

\* C5 (amended): per frame whose output buffer is allocated, filter_frame
\* issues exactly these calls in this order: make the context current,
\* activate the program, set the progress uniform, select and bind frame_tex
\* and upload the pixels, draw 6 vertices as triangles once, read back; the
\* quad buffer is not bound per frame but once, by vbo_setup in config_props,
\* as the position attribute source.
C5_CodeOrder ==
  /\ FrameRendered =>
       /\ Ops(calls) = <<"glfwMakeContextCurrent", "glUseProgram", "glUniform1f",
                         "glActiveTexture", "glBindTexture", "glTexImage2D",
                         "glDrawArrays", "glReadPixels">>
       /\ calls[1].arg = <<gs[last.inst].window>>
       /\ calls[2].arg = <<gs[last.inst].program>>
       /\ calls[3].arg = <<gs[last.inst].progress>>
       /\ calls[5].arg = <<gs[last.inst].frame_tex>>
       /\ calls[7].arg = <<GL_TRIANGLES, 0, 6>>
  /\ (last.fn = "config_props" /\ last.ret = 0) =>
       \E b, a \in 1 .. Len(calls) :
         /\ b < a
         /\ calls[b].op = "glBindBuffer" /\ calls[b].arg = <<gs[last.inst].pos_buf>>
         /\ calls[a].op = "glVertexAttribPointer"
         /\ \A k \in b .. a : calls[k].op # "glBindBuffer" \/ k = b

C5_Witness ==
  /\ FrameRendered
  /\ Len(calls) = 8
  /\ shown[last.inst].n = 2

InUnit(v) == v.k = "fin" /\ 0 <= v.n /\ v.n <= v.d

\* C6: every value written to the progress uniform, by config_props and by
\* every filter_frame, is a number in [0,1], for every pts, offset >= 0 and
\* duration >= 0 (zero included).
C6_ProgressInUnitInterval ==
  \A k \in 1 .. Len(calls) :
    (calls[k].op = "glUniform1f" /\ calls[k].arg = <<gs[last.inst].progress>>)
      => InUnit(calls[k].val)

\* a frame exactly at the offset of an instance of duration zero: 0/0
C6_Witness ==
  /\ FrameRendered
  /\ gs[last.inst].duration = Zero
  /\ IntToFloat(shown[last.inst].pts) = FDiv(gs[last.inst].offset, Rat(1, link[last.inst].den))
  /\ shown[last.inst].progress = One

\* C7: for a duration > 0 the progress is non-decreasing in pts: of any two
\* frames an instance renders one after the other, the one with the smaller
\* pts does not have the larger progress.
C7_Monotone ==
  [][\A i \in insts :
       (shown[i].n >= 1 /\ shown'[i].n >= 1 /\ FGt(gs[i].duration, Zero)) =>
         /\ shown[i].pts <= shown'[i].pts => ~FGt(shown[i].progress, shown'[i].progress)
         /\ shown'[i].pts <= shown[i].pts => ~FGt(shown'[i].progress, shown[i].progress)]_vars

\* a second frame rendered strictly inside the transition
C7_Witness ==
  \E i \in insts :
    /\ shown[i].n = 2
    /\ FGt(gs[i].duration, Zero)
    /\ FGt(shown[i].progress, Zero) /\ FGt(One, shown[i].progress)

\* clamp((pts / den - offset) / duration, 0, 1) over the rationals, for a
\* duration > 0, as the fraction num / dnm
ClampNum(pts, den, offset, duration) ==
  (pts * offset.d - offset.n * den) * duration.d
ClampDnm(pts, den, offset, duration) ==
  den * offset.d * duration.n
IsClamp(v, pts, den, offset, duration) ==
  LET num == ClampNum(pts, den, offset, duration)
      dnm == ClampDnm(pts, den, offset, duration)
  IN /\ v.k = "fin"
     /\ IF num <= 0 THEN v.n = 0
        ELSE IF num >= dnm THEN v.n = v.d
        ELSE v.n * dnm = num * v.d

\* C8: for a duration > 0 the progress of a rendered frame equals
\* clamp((pts / den - offset) / duration, 0, 1); with duration 1, offset 0
\* and den 1 it is 0 at pts 0, 1 at pts 1 and 1 at pts 2.
C8_ProgressIsClamp ==
  \A i \in insts :
    (shown[i].n >= 1 /\ FGt(gs[i].duration, Zero)) =>
      /\ IsClamp(shown[i].progress, shown[i].pts, link[i].den, gs[i].offset, gs[i].duration)
      /\ (gs[i].duration = One /\ gs[i].offset = Zero /\ link[i].den = 1) =>
           /\ shown[i].pts = 0 => shown[i].progress = Zero
           /\ shown[i].pts = 1 => shown[i].progress = One
           /\ shown[i].pts = 2 => shown[i].progress = One

\* a frame strictly inside a transition that has an offset and a duration
\* other than the defaults
C8_Witness ==
  \E i \in insts :
    /\ shown[i].n >= 1
    /\ gs[i].duration = Rat(2, 1) /\ gs[i].offset = Rat(1, 2) /\ link[i].den = 2
    /\ shown[i].pts = 3
    /\ shown[i].progress = Rat(1, 2)

\* C9: with duration zero every frame is rendered with progress 1.0,
\* whatever its pts and the offset.
C9_ZeroDurationIsOne ==
  \A i \in insts :
    (shown[i].n >= 1 /\ gs[i].duration = Zero) => shown[i].progress = One

\* config_props saw a shader fail to compile or the program fail to link
CompileOrLinkFailed ==
  /\ last.fn = "config_props"
  /\ \E k \in 1 .. Len(calls) :
       /\ calls[k].op \in {"glGetShaderiv", "glGetProgramiv"}
       /\ calls[k].arg[2] = 0

SetupOps == {"glUseProgram", "glGenBuffers", "glBindBuffer", "glBufferData",
             "glGetAttribLocation", "glEnableVertexAttribArray",
             "glVertexAttribPointer", "glGenTextures", "glActiveTexture",
             "glBindTexture", "glTexParameteri", "glTexImage2D",
             "glGetUniformLocation", "glUniform1i", "glUniform1f", "glUniform2f"}

\* C10: when the vertex or the fragment shader fails to compile or the
\* program fails to link, config_props returns a negative error code and
\* none of the later setup steps (glUseProgram, vbo_setup, tex_setup,
\* uniforms_setup) has run.
C10_CompileLinkFailure ==
  CompileOrLinkFailed =>
    /\ last.ret < 0
    /\ phase[last.inst] = "configfail"
    /\ \A k \in 1 .. Len(calls) : calls[k].op \notin SetupOps
    /\ gs[last.inst].pos_buf = 0 /\ gs[last.inst].frame_tex = 0

\* the program failed to link, after both shaders compiled
C10_Witness ==
  /\ CompileOrLinkFailed
  /\ \E k \in 1 .. Len(calls) : calls[k].op = "glGetProgramiv" /\ calls[k].arg[2] = 0
  /\ last.ret = -1

\* the events of the handler that ran last
HostOps == [k \in 1 .. Len(host.events) |-> host.events[k].ev]

Happened(ev) == \E k \in 1 .. Len(host.events) : host.events[k].ev = ev

\* config_props tried the transition file and could not open it or could
\* not read it whole
FileFailed ==
  /\ last.fn = "config_props"
  /\ Happened("fopen")
  /\ ~Happened("malloc") \/ ~host.readok

\* the calls of the handler that ran last on a fragment shader
FragmentCalls ==
  {k \in 1 .. Len(calls) :
     calls[k].op = "glCreateShader" /\ calls[k].arg[1] = GL_FRAGMENT_SHADER}

\* C11: when a source path is configured and the file cannot be opened, or
\* cannot be read (the size query, the allocation or the read fails or is
\* short), build_program fails with an error and no fragment shader is
\* composed or compiled from partial or uninitialized content.
C11_ReadFailureIsError ==
  FileFailed =>
    /\ ~crashed
    /\ last.ret < 0
    /\ gs[last.inst].f_shader_source = "NULL"
    /\ FragmentCalls = {}

\* the four declarations and the main of the fragment shader, verbatim
Declarations ==
  "uniform sampler2D to;\nvarying vec2 _uv;\nuniform float progress;\nuniform vec2 resolution;"

Main == "void main() {\n  gl_FragColor = transition(_uv);\n}\n"

\* config_props composed the fragment source
Composed == last.fn = "config_props" /\ Happened("snprintf")

\* C12: for every transition body B (the built-in default, or the file
\* contents of any length up to MaxBody, the empty body included) the
\* composed fragment source is the template with its single %s replaced by
\* B: the four declarations verbatim, one copy of B, the complete main; and
\* the buffer of strlen(template) + strlen(B) bytes holds it with its
\* terminator, so snprintf does not truncate.
C12_ComposedIsTemplateWithBody ==
  Composed =>
    /\ ~gs[last.inst].source => host.body = f_default_transition_source
    /\ gs[last.inst].source => host.body \in Bodies
    /\ gs[last.inst].f_shader_source =
         Declarations \o "\n\n" \o host.body \o "\n\n" \o Main
    /\ strlen(gs[last.inst].f_shader_source) + 1
         <= strlen(f_shader_template) + strlen(host.body)
    /\ Conversions(f_shader_template) = {Len(Declarations) + 3}

\* the file was read whole and is empty
C12_Witness ==
  /\ Composed
  /\ gs[last.inst].source /\ host.readok
  /\ host.body = ""
  /\ last.ret = 0

\* filter_frame ran last and ff_get_video_buffer had returned NULL
AllocFailed == last.fn = "filter_frame" /\ host.out = NoAVFrame

\* how often the handler that ran last did this on the host side
Times(ev) == Cardinality({k \in 1 .. Len(host.events) : host.events[k].ev = ev})

\* C13: if the allocation of the output frame fails, filter_frame returns
\* AVERROR(ENOMEM), issues no GLFW or GL call, forwards no frame, asks for
\* the buffer once only, and leaves the handles of every instance, the
\* current context, the GL objects and the state of the contexts as they
\* were, so that the next frame finds what a frame after a rendered frame
\* finds.
C13_AllocFailure ==
  [][AllocFailed' =>
       /\ last'.ret = AVERROR(ENOMEM)
       /\ calls' = <<>>
       /\ host'.fwd = <<>> /\ Times("ff_filter_frame")' = 0
       /\ Times("ff_get_video_buffer")' = 1
       /\ gs' = gs /\ cur' = cur /\ objs' = objs /\ gl' = gl
       /\ phase' = phase /\ shown' = shown]_vars

\* the allocation fails for an instance that has rendered before, while the
\* context of the other instance is current
C13_Witness ==
  /\ AllocFailed
  /\ shown[last.inst].n >= 1
  /\ cur # 0 /\ cur # gs[last.inst].window

\* the fields of instance i that name its GL resources
Handles(i) ==
  [window |-> gs[i].window, program |-> gs[i].program, pos_buf |-> gs[i].pos_buf,
   frame_tex |-> gs[i].frame_tex, progress |-> gs[i].progress]

\* the state of a context without the pixels of the bound texture and the
\* value of the progress uniform
Fixed(c) == [c EXCEPT !.data = 0, !.progress = Zero]

\* C14: after a successful config_props every filter_frame leaves window,
\* program, pos_buf, frame_tex and the location of the progress uniform of
\* every instance unchanged; in the state of the contexts it changes nothing
\* but the pixels of frame_tex and the value of the progress uniform, both
\* in the instance's own context; and the width and height of frame_tex
\* after the frame are those tex_setup gave it at configuration.
C14_FrameChangesPixelsAndProgressOnly ==
  [][last'.fn = "filter_frame" =>
       /\ \A i \in insts : Handles(i)' = Handles(i)
       /\ objs' = objs
       /\ DOMAIN gl' = DOMAIN gl
       /\ \A c \in DOMAIN gl :
            /\ Fixed(gl'[c]) = Fixed(gl[c])
            /\ c # gs[last'.inst].window => gl'[c] = gl[c]
       /\ gl'[gs[last'.inst].window].texture = gs[last'.inst].frame_tex
       /\ gl'[gs[last'.inst].window].w = link[last'.inst].w
       /\ gl'[gs[last'.inst].window].h = link[last'.inst].h]_vars

\* a second frame was rendered: the texture holds its pixels and the
\* progress uniform is no longer the 0 of configuration
C14_Witness ==
  /\ last.fn = "filter_frame" /\ host.out # NoAVFrame
  /\ shown[last.inst].n = 2
  /\ gl[gs[last.inst].window].data = 1
  /\ gl[gs[last.inst].window].progress = One

\* filter_frame ran last and its output buffer was allocated
OutputAllocated == last.fn = "filter_frame" /\ host.taken # NoAVFrame

\* C15: for every input frame whose output buffer is allocated, filter_frame
\* forwards exactly one frame, before it returns (so in input order), and
\* that frame carries the pts and the other copied properties of the input
\* it was produced from, with the rendered pixels for the decoded ones.
C15_OneFrameForwardedWithInputProps ==
  OutputAllocated =>
    /\ Len(host.fwd) = 1 /\ Times("ff_filter_frame") = 1
    /\ HostOps[Len(HostOps)] = "ff_filter_frame"
    /\ host.fwd[1].pts = host.taken.pts
    /\ host.fwd[1].props = host.taken.props
    /\ host.fwd[1].pts = shown[last.inst].pts
    /\ host.taken.data = "decoded" /\ host.fwd[1].data = "rendered"

\* the second frame of an instance went downstream, with properties 1
C15_Witness ==
  /\ OutputAllocated
  /\ shown[last.inst].n = 2
  /\ host.fwd # <<>>
  /\ host.taken.props = 1

\* the positions of an event among the events of the handler that ran last
At(ev) == {k \in 1 .. Len(host.events) : host.events[k].ev = ev}

\* the events that read the input frame
InputReads == {"av_frame_copy_props", "in->pts", "in->data"}

\* C16: filter_frame frees the input frame exactly once on every path: once
\* when the allocation fails, and once when it succeeds, after the pixels
\* were uploaded (glTexImage2D) and before the output frame is forwarded;
\* nothing reads the input after it was freed.
C16_InputFreedOnce ==
  last.fn = "filter_frame" =>
    /\ host.freed = 1 /\ Times("av_frame_free") = 1
    /\ host.in = NoAVFrame
    /\ \A f \in At("av_frame_free") :
         /\ \A k \in 1 .. Len(host.events) :
              host.events[k].ev \in InputReads => k < f
         /\ \A k \in At("ff_filter_frame") : f < k
         /\ \A k \in 1 .. Len(calls) :
              calls[k].op = "glTexImage2D" => k <= host.events[f].at
    /\ OutputAllocated => Times("in->data") = 1 /\ Times("in->pts") = 1

\* a frame was rendered and passed on, and its input freed
C16_Witness ==
  /\ OutputAllocated
  /\ host.freed = 1
  /\ Len(calls) = 8 /\ host.fwd # <<>>

\* C17: host memory allocated during configuration is released exactly once
\* on every path: the buffer with the file contents is freed before
\* build_program returns on every path taken after its allocation, and
\* f_shader_source is freed exactly once by uninit, whether configuration
\* succeeded or failed at a later step.
C17_HostMemoryReleasedOnce ==
  ~crashed =>
    /\ \A i \in insts :
         /\ mem[i].source_free <= mem[i].source_alloc
         /\ mem[i].f_shader_source_free <= mem[i].f_shader_source_alloc
         /\ mem[i].f_shader_source_alloc <= 1
         /\ phase[i] = "done" =>
              mem[i].f_shader_source_free = mem[i].f_shader_source_alloc
    /\ last.fn = "config_props" =>
         mem[last.inst].source_free = mem[last.inst].source_alloc

====
